---- MODULE Spec2Model ----
(***************************************************************************)
(* A model of vector<T> (src/vector.h) instantiated with the element kind  *)
(* counted<T> of src/main.cpp: every copy construction and copy assignment *)
(* of an element calls counted::copy(), which throws when the configured   *)
(* countdown reaches zero, and counted::instances() counts the elements    *)
(* constructed and not yet destroyed.                                      *)
(*                                                                         *)
(* The heap is a map from buffer addresses to allocations.  A slot of an   *)
(* allocation is Raw (no element constructed there) or holds the value of  *)
(* the live element.  A vector is the triple (data_, size_, capacity_).    *)
(* Every public operation is one action; the operators below compute what  *)
(* the code of the operation does, statement by statement, on a machine    *)
(* record m that carries the heap, the countdown, the instance counter,    *)
(* the exception in flight (exc), the flags ub (a slot outside the         *)
(* allocation or a Raw slot was accessed) and ovf (the call stack ran      *)
(* out), and the log of the constructions and destructions of the call.    *)
(***************************************************************************)
EXTENDS Integers, Sequences, FiniteSets, TLC

\* ---- bounds of the model ------------------------------------------------
MaxVal == 2          \* element values are 1..MaxVal
MaxCap == 4          \* element slots the containers own in total (sum of capacities)
MaxCountdown == 3    \* set_throw_countdown(n) is called with n <= MaxCountdown
MaxDepth == 3        \* call-stack frames available to nested push_back calls
MaxBufs == 8         \* addresses the allocator can hand out
MaxN == 6            \* values the insert_begin scenario inserts at most

Values == 1..MaxVal
Raw == 0
NullPtr == 0
BufIds == 1..MaxBufs
Names == {"a", "b"}

VARIABLES
    heap,       \* address -> allocation
    vec,        \* container name -> [data, size, cap]   (data_, size_, capacity_)
    alive,      \* container name -> the container object exists
    countdown,  \* counted::throw_countdown
    instances,  \* counted::instances()
    status,     \* "running", or how the process left defined behaviour
    last        \* the operation just performed: name, arguments, outcome

vars == <<heap, vec, alive, countdown, instances, status, last>>

FreeBuf == [used |-> FALSE, cap |-> 0, slots |-> <<>>]
EmptyVec == [data |-> NullPtr, size |-> 0, cap |-> 0]

\* ---- the allocator --------------------------------------------------------
FreeIds(h) == {b \in BufIds : ~h[b].used}

\* operator new(n * sizeof(T)): a fresh address, distinct from every live
\* allocation and never null, also for n = 0.
operator_new(m, n) ==
    LET p == CHOOSE b \in FreeIds(m.heap) : \A c \in FreeIds(m.heap) : b <= c
    IN  [m |-> [m EXCEPT !.heap[p] = [used |-> TRUE, cap |-> n,
                                     slots |-> [i \in 1..n |-> Raw]]],
         p |-> p]

\* operator delete(p): releases the allocation, runs no destructor.
operator_delete(m, p) ==
    IF p = NullPtr THEN m ELSE [m EXCEPT !.heap[p] = FreeBuf]

\* ---- element slots --------------------------------------------------------
\* slot i (0-based) of allocation p lies inside the allocation
InBuf(m, p, i) == p # NullPtr /\ m.heap[p].used /\ 0 <= i /\ i < m.heap[p].cap

\* slot i of p holds a live element
SlotLive(m, p, i) ==
    /\ p # NullPtr
    /\ m.heap[p].used
    /\ 0 <= i
    /\ i < Len(m.heap[p].slots)
    /\ m.heap[p].slots[i + 1] # Raw

\* the value read through a reference to slot i of p; a read of a slot that
\* holds no element yields whatever the memory holds (m.g)
LoadVal(m, p, i) == IF SlotLive(m, p, i) THEN m.heap[p].slots[i + 1] ELSE m.g

\* memory at slot i of p after a store of x; a store past the end of the
\* allocation lands in the memory behind it
StoreVal(m, p, i, x) ==
    IF p = NullPtr \/ i < 0 \/ ~m.heap[p].used THEN m
    ELSE LET s == m.heap[p].slots
             n == IF i + 1 > Len(s) THEN i + 1 ELSE Len(s)
         IN  [m EXCEPT !.heap[p].slots =
                 [j \in 1..n |-> IF j = i + 1 THEN x
                                 ELSE IF j <= Len(s) THEN s[j] ELSE Raw]]

\* The operators below are written as chains of bindings
\*     Only({ body : x \in {e} })
\* which evaluate e once, bind its value to x and yield body: the statements
\* of the code in sequence, each working on the machine the previous one left.
Only(S) == CHOOSE r \in S : TRUE

\* the entries of the log of a machine: an element was constructed in slot i
\* of p, the element in slot i of p was destroyed
Constructed(p, i) == [ev |-> "construct", p |-> p, i |-> i]
Destroyed(p, i) == [ev |-> "destroy", p |-> p, i |-> i]

\* counted::copy()
counted_copy(m) ==
    IF m.cd # 0
    THEN [m EXCEPT !.cd = m.cd - 1, !.exc = (m.cd = 1), !.copies = @ + 1]
    ELSE [m EXCEPT !.copies = @ + 1]

\* new (p + i) T(x): counted(counted const&) at slot i of p.  The member
\* initialiser val(rhs.val) writes to the slot before copy() can throw, so a
\* slot outside the allocation is written on both paths.
construct_at(m, p, i, x) ==
    Only({ IF m1.exc THEN [m1 EXCEPT !.ub = @ \/ ~InBuf(m, p, i)]
           ELSE [StoreVal(m1, p, i, x) EXCEPT
                    !.inst = @ + 1,
                    !.ub = @ \/ ~InBuf(m, p, i) \/ SlotLive(m, p, i),
                    !.log = Append(@, Constructed(p, i))]
         : m1 \in {counted_copy(m)} })

\* p[i].~T()
destroy_at(m, p, i) ==
    [StoreVal(m, p, i, Raw) EXCEPT
        !.inst = @ - 1, !.ub = @ \/ ~(InBuf(m, p, i) /\ SlotLive(m, p, i)),
        !.log = Append(@, Destroyed(p, i))]

\* p[i] = x: counted::operator=
assign_at(m, p, i, x) ==
    Only({ IF m1.exc THEN m1
           ELSE [StoreVal(m1, p, i, x) EXCEPT
                    !.ub = @ \/ ~(InBuf(m, p, i) /\ SlotLive(m, p, i))]
         : m1 \in {counted_copy(m)} })

\* a read of p[i] through a reference
read_at(m, p, i) == [m EXCEPT !.ub = @ \/ ~(InBuf(m, p, i) /\ SlotLive(m, p, i))]

\* a reference argument (T const&): to a value outside every container, or to
\* slot i of allocation p
ExtRef(x) == [ext |-> TRUE, val |-> x, p |-> NullPtr, i |-> 0]
SlotRef(p, i) == [ext |-> FALSE, val |-> 0, p |-> p, i |-> i]
Deref(m, r) == IF r.ext THEN r.val ELSE LoadVal(m, r.p, r.i)
read_ref(m, r) == IF r.ext THEN m ELSE read_at(m, r.p, r.i)

\* std::swap(p[i], p[j]) for counted<T>, which has no move operations:
\* T tmp(p[i]); p[i] = p[j]; p[j] = tmp; the temporary is destroyed on
\* every path, so instances() is the same before and after.
swap_elems(m, p, i, j) ==
    Only({ IF m1.exc THEN m1
           ELSE Only({ IF m2.exc THEN m2 ELSE assign_at(m2, p, j, LoadVal(m, p, i))
                     : m2 \in {assign_at(m1, p, i, LoadVal(m1, p, j))} })
         : m1 \in {counted_copy(read_at(read_at(m, p, i), p, j))} })

\* destroy_all(data, size): the loop of the non-trivially-destructible overload
RECURSIVE destroy_from(_, _, _, _)
destroy_from(m, p, i, size) ==
    IF i = size THEN m
    ELSE Only({ destroy_from(m1, p, i + 1, size) : m1 \in {destroy_at(m, p, i)} })

destroy_all(m, p, size) == destroy_from(m, p, 0, size)

\* (for C6) a catch block that rethrows without destroying what was constructed
unwind_constructed_none(m, dst, d0, i) == m

\* (for C18) a catch block that destroys dst[0], ..., dst[i-1] in that order
unwind_forward(m, dst, d0, i) == destroy_from(m, dst, d0, d0 + i)

\* the catch block of copy_construct_all: destroys dst[i-1], ..., dst[0]
RECURSIVE unwind_constructed(_, _, _, _)
unwind_constructed(m, dst, d0, i) ==
    IF i = 0 THEN m
    ELSE Only({ unwind_constructed(m1, dst, d0, i - 1)
              : m1 \in {destroy_at(m, dst, d0 + i - 1)} })

\* the try block of copy_construct_all, from element i on
RECURSIVE copy_construct_from(_, _, _, _, _, _, _)
copy_construct_from(m, dst, d0, src, s0, i, size) ==
    IF i = size THEN m
    ELSE Only({ Only({ IF m2.exc
                       THEN unwind_constructed(m2, dst, d0, i)
                       ELSE copy_construct_from(m2, dst, d0, src, s0, i + 1, size)
                     : m2 \in {construct_at(m1, dst, d0 + i, LoadVal(m, src, s0 + i))} })
              : m1 \in {read_at(m, src, s0 + i)} })

\* copy_construct_all(dst + d0, src + s0, size), general policy
copy_construct_all(m, dst, d0, src, s0, size) ==
    copy_construct_from(m, dst, d0, src, s0, 0, size)

\* ---- vector<T> ------------------------------------------------------------
\* a result of a member function: the machine and the object (*this)
Res(m, v) == [m |-> m, v |-> v]

\* vector::~vector
vector_dtor(m, v) ==
    Only({ operator_delete(m1, v.data) : m1 \in {destroy_all(m, v.data, v.size)} })

\* vector::increase_capacity
increase_capacity(v) == IF v.cap = 0 THEN 4 ELSE (v.cap * 3) \div 2

\* (for C3) a new_buffer that takes the new allocation before the elements are
\* copied into it: when a copy fails the old buffer is gone
new_buffer_swap_first(m, v, new_capacity) ==
    Only({ Only({ IF m1.exc
                  THEN Res(vector_dtor(m1, v),
                           [data |-> a.p, size |-> 0, cap |-> new_capacity])
                  ELSE Res(vector_dtor(m1, v),
                           [data |-> a.p, size |-> v.size, cap |-> new_capacity])
                : m1 \in {copy_construct_all(a.m, a.p, 0, v.data, 0, v.size)} })
         : a \in {operator_new(m, new_capacity)} })

\* vector::new_buffer(new_capacity); the assert holds at every call
new_buffer(m, v, new_capacity) ==
    Only({ Only({ IF m1.exc
                  THEN Res(vector_dtor(m1, [data |-> a.p, size |-> 0, cap |-> new_capacity]), v)
                  ELSE Res(vector_dtor(m1, v),
                           [data |-> a.p, size |-> v.size, cap |-> new_capacity])
                : m1 \in {copy_construct_all(a.m, a.p, 0, v.data, 0, v.size)} })
         : a \in {operator_new(m, new_capacity)} })

\* vector::push_back and vector::push_back_realloc; depth counts the
\* push_back_realloc frames on the call stack
RECURSIVE push_back(_, _, _, _)
RECURSIVE push_back_realloc(_, _, _, _)
push_back_realloc(m, v, val, depth) ==
    IF depth >= MaxDepth THEN Res([m EXCEPT !.ovf = TRUE], v)
    ELSE
    Only({ Only({ IF m2.exc THEN Res(vector_dtor(m2, r1.v), v)
                  ELSE Only({ IF r3.m.ovf THEN Res(r3.m, v)
                              ELSE IF r3.m.exc THEN Res(vector_dtor(r3.m, r3.v), v)
                              ELSE Res(vector_dtor(r3.m, v), r3.v)
                            : r3 \in {push_back(m2, [r1.v EXCEPT !.size = v.size],
                                                val, depth + 1)} })
                : m2 \in {copy_construct_all(r1.m, r1.v.data, 0, v.data, 0, v.size)} })
         : r1 \in {new_buffer(m, EmptyVec, increase_capacity(v))} })

push_back(m, v, val, depth) ==
    IF v.size # v.cap
    THEN Only({ IF m1.exc THEN Res(m1, v) ELSE Res(m1, [v EXCEPT !.size = @ + 1])
              : m1 \in {construct_at(read_ref(m, val), v.data, v.size, Deref(m, val))} })
    ELSE push_back_realloc(m, v, val, depth)

\* vector::reserve
reserve(m, v, desired_capacity) ==
    IF desired_capacity < v.cap THEN Res(m, v) ELSE new_buffer(m, v, desired_capacity)

\* (for C13) a shrink_to_fit that leaves the buffer as it is
shrink_to_fit_never(m, v) == Res(m, v)

\* (for C14) a shrink_to_fit without the early return
shrink_to_fit_always(m, v) == new_buffer(m, v, v.size)

\* vector::shrink_to_fit
shrink_to_fit(m, v) ==
    IF v.cap = v.size THEN Res(m, v) ELSE new_buffer(m, v, v.size)

\* vector::clear
clear(m, v) == Res(destroy_all(m, v.data, v.size), [v EXCEPT !.size = 0])

\* vector::pop_back; the caller guarantees size_ != 0
pop_back(m, v) == Res(destroy_at(m, v.data, v.size - 1), [v EXCEPT !.size = @ - 1])

\* vector::swap: exchanges the three members, touches no element
vector_swap(v, other) == [this |-> other, other |-> v]

\* vector::vector(vector const& other).  The delegated default constructor
\* has completed, so when the body throws the destructor of *this runs.
copy_ctor(m, other) ==
    Only({ Only({ IF m2.exc THEN Res(vector_dtor(m2, r1.v), EmptyVec)
                  ELSE Res(m2, [r1.v EXCEPT !.size = other.size])
                : m2 \in {copy_construct_all(r1.m, r1.v.data, 0,
                                             other.data, 0, other.size)} })
         : r1 \in {new_buffer(m, EmptyVec, other.size)} })

\* (for C15) an assignment that empties *this before it copies other
assign_clear_first(m, v, other) ==
    Only({ Only({ IF r1.m.exc THEN Res(r1.m, c.v) ELSE Res(vector_dtor(r1.m, c.v), r1.v)
                : r1 \in {copy_ctor(c.m, other)} })
         : c \in {clear(m, v)} })

\* vector::operator=: vector copy(other); swap(copy); then copy, which now
\* holds the old members of *this, is destroyed
assign(m, v, other) ==
    Only({ IF r1.m.exc THEN Res(r1.m, v) ELSE Res(vector_dtor(r1.m, v), r1.v)
         : r1 \in {copy_ctor(m, other)} })

\* (for C12) a swap loop that stops one position before pos
RECURSIVE shift_right_short(_, _, _, _)
shift_right_short(m, p, i, pos) ==
    IF i = pos \/ i = pos + 1 THEN m
    ELSE Only({ IF m1.exc THEN m1 ELSE shift_right_short(m1, p, i - 1, pos)
              : m1 \in {swap_elems(m, p, i, i - 1)} })

\* the loop of the no-growth path of insert: i runs from end() - 1 down to pos
RECURSIVE shift_right(_, _, _, _)
shift_right(m, p, i, pos) ==
    IF i = pos THEN m
    ELSE Only({ IF m1.exc THEN m1 ELSE shift_right(m1, p, i - 1, pos)
              : m1 \in {swap_elems(m, p, i, i - 1)} })

\* a result of insert or erase: the machine, the object, the returned iterator
ResIt(m, v, p, i) == [m |-> m, v |-> v, it |-> [p |-> p, i |-> i]]

\* the growth path of insert (size_ == capacity_)
insert_grow(m, v, k, val) ==
    Only({ Only({ IF m2.exc THEN ResIt(vector_dtor(m2, r1.v), v, NullPtr, 0)
      ELSE Only({ IF r3.m.ovf THEN ResIt(r3.m, v, NullPtr, 0)
        ELSE IF r3.m.exc THEN ResIt(vector_dtor(r3.m, r3.v), v, NullPtr, 0)
        ELSE Only({ IF m4.exc THEN ResIt(vector_dtor(m4, r3.v), v, NullPtr, 0)
                    ELSE ResIt(vector_dtor(m4, v),
                               [r3.v EXCEPT !.size = @ + (v.size - k)], r1.v.data, k)
                  : m4 \in {copy_construct_all(r3.m, r3.v.data, r3.v.size,
                                               v.data, k, v.size - k)} })
        : r3 \in {push_back(m2, [r1.v EXCEPT !.size = k], val, 0)} })
      : m2 \in {copy_construct_all(r1.m, r1.v.data, 0, v.data, 0, k)} })
    : r1 \in {new_buffer(m, EmptyVec, increase_capacity(v))} })

\* the no-growth path of insert: push_back(back()), the swaps, *pos = val
insert_shift(m, v, k, val) ==
    Only({ IF r1.m.exc THEN ResIt(r1.m, v, NullPtr, 0)
      ELSE Only({ IF m2.exc THEN ResIt(m2, r1.v, NullPtr, 0)
        ELSE ResIt(assign_at(read_ref(m2, val), v.data, k, Deref(m2, val)),
                   r1.v, v.data, k)
        : m2 \in {shift_right(r1.m, v.data, r1.v.size - 1, k)} })
    : r1 \in {push_back(m, v, SlotRef(v.data, v.size - 1), 0)} })

\* vector::insert(begin() + k, val)
insert(m, v, k, val) ==
    IF v.size = v.cap THEN insert_grow(m, v, k, val) ELSE insert_shift(m, v, k, val)

\* the first loop of erase: swaps *first and *last until last reaches end()
RECURSIVE shift_left(_, _, _, _, _)
shift_left(m, p, first, lst, size) ==
    IF lst = size THEN [m |-> m, first |-> first]
    ELSE Only({ IF m1.exc THEN [m |-> m1, first |-> first]
                ELSE shift_left(m1, p, first + 1, lst + 1, size)
              : m1 \in {swap_elems(m, p, first, lst)} })

\* (for C10) a second loop of erase that stops one element early
RECURSIVE destroy_tail_short(_, _, _, _)
destroy_tail_short(m, p, first, lst) ==
    IF first = lst \/ first + 1 = lst THEN m
    ELSE Only({ destroy_tail_short(m1, p, first + 1, lst)
              : m1 \in {destroy_at(m, p, first)} })

\* the second loop of erase: destroys [first, last)
RECURSIVE destroy_tail(_, _, _, _)
destroy_tail(m, p, first, lst) ==
    IF first = lst THEN m
    ELSE Only({ destroy_tail(m1, p, first + 1, lst) : m1 \in {destroy_at(m, p, first)} })

\* vector::erase(begin() + i, begin() + j)
erase(m, v, i, j) ==
    Only({ IF s.m.exc THEN ResIt(s.m, v, NullPtr, 0)
           ELSE ResIt(destroy_tail(s.m, v.data, s.first, v.size),
                      [v EXCEPT !.size = s.first], v.data, i)
         : s \in {shift_left(m, v.data, i, j, v.size)} })

\* ---- the operations as actions ---------------------------------------------
\* the machine at the start of an operation; g is what a read of memory that
\* holds no element returns
Machine(g) == [heap |-> heap, cd |-> countdown, inst |-> instances,
               exc |-> FALSE, ub |-> FALSE, ovf |-> FALSE, copies |-> 0, g |-> g,
               log |-> <<>>]

\* what is recorded of the operation just performed: its name, the container
\* it was called on, the size and capacity that container had at the call, and
\* whether the call returned ("ok"), threw the copy failure ("throw") or never
\* came back because the call stack ran out ("overflow")
Op(op, w, m) ==
    [op |-> op, w |-> w, size0 |-> vec[w].size, cap0 |-> vec[w].cap,
     out |-> IF m.ovf THEN "overflow" ELSE IF m.exc THEN "throw" ELSE "ok"]

StatusAfter(m) == IF m.ub THEN "ub" ELSE "running"

\* the effect of a member function of container w on the program state; when
\* the call stack ran out the process is gone and only that is recorded
Commit(w, m, v, rec) ==
    IF m.ovf
    THEN /\ status' = "stack_overflow"
         /\ last' = rec
         /\ UNCHANGED <<heap, vec, alive, countdown, instances>>
    ELSE /\ heap' = m.heap
         /\ vec' = [vec EXCEPT ![w] = v]
         /\ countdown' = m.cd
         /\ instances' = m.inst
         /\ status' = StatusAfter(m)
         /\ last' = rec
         /\ UNCHANGED alive

Usable(w) == status = "running" /\ alive[w]

\* the capacity owned by the containers other than w
OtherCap(w) == IF \E o \in Names \ {w} : alive[o]
               THEN vec[CHOOSE o \in Names \ {w} : alive[o]].cap ELSE 0

\* a capacity of c for w stays within the modelled total
Fits(w, c) == c + OtherCap(w) <= MaxCap

\* the growth of w, if this call grows it, stays within the modelled total
CanGrow(w) == vec[w].size # vec[w].cap \/ Fits(w, increase_capacity(vec[w]))

\* what a read of memory that holds no element may return in a call on w:
\* only w.insert on an empty w with spare capacity makes such a read
Garbage(w) == IF vec[w].size = 0 /\ vec[w].cap # 0 THEN Values ELSE {1}

\* vector<T> w;
DefaultCtor(w) ==
    /\ status = "running" /\ ~alive[w]
    /\ alive' = [alive EXCEPT ![w] = TRUE]
    /\ vec' = [vec EXCEPT ![w] = EmptyVec]
    /\ last' = Op("ctor", w, Machine(1))
    /\ UNCHANGED <<heap, countdown, instances, status>>

\* vector<T> w = o;   when the constructor throws, w does not come to exist
CopyCtor(w, o) ==
    /\ status = "running" /\ ~alive[w] /\ alive[o] /\ Fits(w, vec[o].size)
    /\ LET r == copy_ctor(Machine(1), vec[o])
       IN  /\ heap' = r.m.heap
           /\ vec' = [vec EXCEPT ![w] = r.v]
           /\ alive' = [alive EXCEPT ![w] = ~r.m.exc]
           /\ countdown' = r.m.cd
           /\ instances' = r.m.inst
           /\ status' = StatusAfter(r.m)
           /\ last' = Op("copy_ctor", w, r.m)

\* w goes out of scope
Dtor(w) ==
    /\ Usable(w)
    /\ LET m == vector_dtor(Machine(1), vec[w])
       IN  /\ heap' = m.heap
           /\ vec' = [vec EXCEPT ![w] = EmptyVec]
           /\ alive' = [alive EXCEPT ![w] = FALSE]
           /\ instances' = m.inst
           /\ status' = StatusAfter(m)
           /\ last' = Op("dtor", w, m)
           /\ UNCHANGED countdown

\* w = o;   o may be w itself
Assign(w, o) ==
    /\ Usable(w) /\ alive[o] /\ Fits(w, vec[o].size)
    /\ LET r == assign(Machine(1), vec[w], vec[o])
       IN  Commit(w, r.m, r.v, Op("assign", w, r.m))

\* w.swap(o)
Swap(w, o) ==
    /\ Usable(w) /\ alive[o] /\ w # o
    /\ LET r == vector_swap(vec[w], vec[o])
       IN  /\ vec' = [vec EXCEPT ![w] = r.this, ![o] = r.other]
           /\ last' = Op("swap", w, Machine(1))
           /\ UNCHANGED <<heap, alive, countdown, instances, status>>

\* w.push_back(x) with x a value outside the container
PushBack(w, x) ==
    /\ Usable(w) /\ CanGrow(w)
    /\ LET r == push_back(Machine(1), vec[w], ExtRef(x), 0)
       IN  Commit(w, r.m, r.v, Op("push_back", w, r.m))

\* w.push_back(w[k])
PushBackSelf(w, k) ==
    /\ Usable(w) /\ CanGrow(w) /\ k < vec[w].size
    /\ LET r == push_back(Machine(1), vec[w], SlotRef(vec[w].data, k), 0)
       IN  Commit(w, r.m, r.v, Op("push_back_self", w, r.m))

\* w.pop_back()
PopBack(w) ==
    /\ Usable(w) /\ vec[w].size # 0
    /\ LET r == pop_back(Machine(1), vec[w])
       IN  Commit(w, r.m, r.v, Op("pop_back", w, r.m))

\* w.insert(w.begin() + k, x)
Insert(w, k, x) ==
    /\ Usable(w) /\ CanGrow(w) /\ k <= vec[w].size
    /\ \E g \in Garbage(w) :
         LET r == insert(Machine(g), vec[w], k, ExtRef(x))
         IN  Commit(w, r.m, r.v, Op("insert", w, r.m))

\* w.insert(w.begin() + k, w[e])
InsertSelf(w, k, e) ==
    /\ Usable(w) /\ CanGrow(w) /\ k <= vec[w].size /\ e < vec[w].size
    /\ \E g \in Garbage(w) :
         LET r == insert(Machine(g), vec[w], k, SlotRef(vec[w].data, e))
         IN  Commit(w, r.m, r.v, Op("insert_self", w, r.m))

\* w.erase(w.begin() + i, w.begin() + j)
Erase(w, i, j) ==
    /\ Usable(w) /\ i <= j /\ j <= vec[w].size
    /\ LET r == erase(Machine(1), vec[w], i, j)
       IN  Commit(w, r.m, r.v, Op("erase", w, r.m))

\* w.erase(w.begin() + i): erase(pos, pos + 1)
EraseOne(w, i) ==
    /\ Usable(w) /\ i < vec[w].size
    /\ LET r == erase(Machine(1), vec[w], i, i + 1)
       IN  Commit(w, r.m, r.v, Op("erase_one", w, r.m))

\* w.reserve(n)
Reserve(w, n) ==
    /\ Usable(w) /\ Fits(w, n)
    /\ LET r == reserve(Machine(1), vec[w], n)
       IN  Commit(w, r.m, r.v, Op("reserve", w, r.m))

\* w.shrink_to_fit()
ShrinkToFit(w) ==
    /\ Usable(w)
    /\ LET r == shrink_to_fit(Machine(1), vec[w])
       IN  Commit(w, r.m, r.v, Op("shrink_to_fit", w, r.m))

\* w.clear()
Clear(w) ==
    /\ Usable(w)
    /\ LET r == clear(Machine(1), vec[w])
       IN  Commit(w, r.m, r.v, Op("clear", w, r.m))

\* counted<T>::set_throw_countdown(n)
SetThrowCountdown(n) ==
    /\ status = "running"
    /\ countdown' = n
    /\ last' = Op("set_throw_countdown", "a", Machine(1))
    /\ UNCHANGED <<heap, vec, alive, instances, status>>

Init ==
    /\ heap = [b \in BufIds |-> FreeBuf]
    /\ vec = [w \in Names |-> EmptyVec]
    /\ alive = [w \in Names |-> w = "a"]
    /\ countdown = 0
    /\ instances = 0
    /\ status = "running"
    /\ last = [op |-> "ctor", w |-> "a", size0 |-> 0, cap0 |-> 0, out |-> "ok"]

\* one container, a, used through every member function
Next ==
    \/ DefaultCtor("a")
    \/ Dtor("a")
    \/ Assign("a", "a")
    \/ \E x \in Values : PushBack("a", x)
    \/ \E k \in 0..MaxCap : PushBackSelf("a", k)
    \/ PopBack("a")
    \/ \E k \in 0..MaxCap, x \in Values : Insert("a", k, x)
    \/ \E k \in 0..MaxCap, e \in 0..MaxCap : InsertSelf("a", k, e)
    \/ \E i \in 0..MaxCap, j \in 0..MaxCap : Erase("a", i, j)
    \/ \E i \in 0..MaxCap : EraseOne("a", i)
    \/ \E n \in 0..MaxCap : Reserve("a", n)
    \/ ShrinkToFit("a")
    \/ Clear("a")
    \/ \E n \in 0..MaxCountdown : SetThrowCountdown(n)

Spec == Init /\ [][Next]_vars

\* two containers, a and b: copies, assignments and swaps between them, and
\* push_back and pop_back to fill and empty them
NextTwo ==
    \/ \E w \in Names : DefaultCtor(w)
    \/ \E w, o \in Names : CopyCtor(w, o)
    \/ \E w \in Names : Dtor(w)
    \/ \E w, o \in Names : Assign(w, o)
    \/ \E w, o \in Names : Swap(w, o)
    \/ \E w \in Names, x \in Values : PushBack(w, x)
    \/ \E w \in Names : PopBack(w)
    \/ \E n \in 0..MaxCountdown : SetThrowCountdown(n)

SpecTwo == Init /\ [][NextTwo]_vars

\* ---- observations ----------------------------------------------------------
\* the elements of container w, in order
Contents(w) ==
    [i \in 1..vec[w].size |->
        IF vec[w].data # NullPtr /\ i <= Len(heap[vec[w].data].slots)
        THEN heap[vec[w].data].slots[i] ELSE Raw]

\* slot i (1-based) of the buffer of w holds a live element
LiveSlot(w, i) ==
    /\ vec[w].data # NullPtr
    /\ i <= Len(heap[vec[w].data].slots)
    /\ heap[vec[w].data].slots[i] # Raw

\* the buffer of w is an allocation of capacity_ slots, or null
OwnsBuffer(w) ==
    \/ vec[w].data = NullPtr /\ vec[w].cap = 0
    \/ /\ vec[w].data # NullPtr
       /\ heap[vec[w].data].used
       /\ heap[vec[w].data].cap = vec[w].cap

\* ---- C1 --------------------------------------------------------------------
\* C1: in every reachable state every container has 0 <= size <= capacity,
\* exactly the slots [0, size) of its buffer hold live elements and the slots
\* [size, capacity) hold none.
C1_SizeWithinCapacity ==
    \A w \in Names : alive[w] =>
        /\ 0 <= vec[w].size
        /\ vec[w].size <= vec[w].cap
        /\ \A i \in 1..vec[w].size : LiveSlot(w, i)
        /\ \A i \in (vec[w].size + 1)..vec[w].cap : ~LiveSlot(w, i)

\* ---- C2 --------------------------------------------------------------------
\* C2: every call of push_back or insert completes: it returns or throws the
\* copy failure; the nested push_back calls never use up the call stack.
C2_CallsComplete ==
    last.op \in {"push_back", "push_back_self", "insert", "insert_self"}
        => last.out \in {"ok", "throw"}

\* ---- C3 --------------------------------------------------------------------
\* the step is a call on w that has to build a new buffer: reserve,
\* shrink_to_fit, or a push_back or insert made with size == capacity
RebuildStep(w) ==
    /\ last'.w = w
    /\ \/ last'.op \in {"reserve", "shrink_to_fit"}
       \/ /\ last'.op \in {"push_back", "push_back_self", "insert", "insert_self"}
          /\ vec[w].size = vec[w].cap

\* C3: when reserve, shrink_to_fit, or a push_back or insert called with
\* size == capacity fails with the copy failure, the container has the size,
\* capacity, data pointer and elements it had before the call, and its buffer
\* is the same allocation with the same slots.
C3_StrongGuarantee ==
    [][\A w \in Names :
          (RebuildStep(w) /\ last'.out = "throw") =>
              /\ vec'[w] = vec[w]
              /\ Contents(w)' = Contents(w)
              /\ vec[w].data # NullPtr => heap'[vec[w].data] = heap[vec[w].data]
              /\ instances' = instances]_vars

\* a push_back or insert called on a full container of three elements or more
\* has just failed, the countdown having run out during it
C3_Witness ==
    /\ last.out = "throw"
    /\ last.op \in {"push_back", "insert"}
    /\ last.size0 = last.cap0
    /\ last.size0 >= 3
    /\ vec["a"].size = last.size0
    /\ countdown = 0

\* ---- C4 --------------------------------------------------------------------
\* C4: a push_back(x) in which no copy fails leaves the container holding the
\* sequence it held followed by x, whether or not the call grew the buffer.
C4_PushBackAppends ==
    [][\A x \in Values :
          (last'.op = "push_back" /\ last'.out # "throw" /\ PushBack("a", x)) =>
              /\ Contents("a")' = Append(Contents("a"), x)
              /\ vec'["a"].size = vec["a"].size + 1]_vars

\* ---- C5 --------------------------------------------------------------------
\* the sequence s with x put in front of its element of index k (0-based)
InsertedAt(s, k, x) == SubSeq(s, 1, k) \o <<x>> \o SubSeq(s, k + 1, Len(s))

\* C5: insert(begin() + k, x) in which no copy fails leaves the container
\* holding s[0..k), x, s[k..size), one element more than before, and returns
\* the position of index k in the buffer the container has after the call.
C5_InsertPlaces ==
    [][\A k \in 0..MaxCap, x \in Values :
          (last'.op = "insert" /\ last'.out # "throw" /\ Insert("a", k, x)) =>
              /\ Contents("a")' = InsertedAt(Contents("a"), k, x)
              /\ vec'["a"].size = vec["a"].size + 1
              /\ \A g \in Garbage("a") :
                    insert(Machine(g), vec["a"], k, ExtRef(x)).it
                        = [p |-> vec'["a"].data, i |-> k]]_vars

\* ---- C6 --------------------------------------------------------------------
\* the number of live elements in the allocations
LiveInHeap ==
    Cardinality({pi \in BufIds \X (1..(MaxCap + 2)) :
                    /\ heap[pi[1]].used
                    /\ pi[2] <= Len(heap[pi[1]].slots)
                    /\ heap[pi[1]].slots[pi[2]] # Raw})

SizeOf(w) == IF alive[w] THEN vec[w].size ELSE 0

\* C6: between operations, also after failed ones, the live instances are
\* exactly the elements of the existing containers and every allocation is
\* the buffer of an existing container; so once every container is destroyed
\* no instance is live and no buffer is allocated.
C6_NoLeak ==
    /\ instances = SizeOf("a") + SizeOf("b")
    /\ LiveInHeap = instances
    /\ \A p \in BufIds :
          heap[p].used => \E w \in Names : alive[w] /\ vec[w].data = p
    /\ (\A w \in Names : ~alive[w]) =>
          (instances = 0 /\ \A p \in BufIds : ~heap[p].used)

\* an insert that had to grow a full container of three elements has just
\* failed after copying elements into the new buffer; three instances are live
C6_Witness ==
    /\ last.out = "throw"
    /\ last.op = "insert"
    /\ last.size0 = 3
    /\ last.cap0 = 3
    /\ countdown = 0
    /\ instances = 3

\* ---- C7 --------------------------------------------------------------------
\* C7: reserve(n) with n <= capacity changes nothing (size, capacity, data
\* pointer, elements, no element copied); reserve(n) with n > capacity leaves
\* capacity == n and the same elements.
C7_ReserveNoOpUpToCapacity ==
    [][\A n \in 0..MaxCap :
          (last'.op = "reserve" /\ Reserve("a", n)) =>
              IF n <= vec["a"].cap
              THEN /\ vec'["a"] = vec["a"]
                   /\ heap' = heap
                   /\ reserve(Machine(1), vec["a"], n).m.copies = 0
              ELSE last'.out = "ok" =>
                       /\ vec'["a"].cap = n
                       /\ Contents("a")' = Contents("a")]_vars

\* ---- C8 --------------------------------------------------------------------
\* C8: in every reachable state the data pointer of a container is null if
\* and only if its capacity is 0.
C8_NullIffNoCapacity ==
    \A w \in Names : alive[w] => (vec[w].data = NullPtr <=> vec[w].cap = 0)

\* ---- C9 --------------------------------------------------------------------
\* C9: a push_back on a container with size == capacity == c in which no copy
\* fails leaves the capacity at 4 if c == 0 and at floor(c * 3 / 2) otherwise,
\* and that capacity is greater than the old size.
C9_GrowthLaw ==
    [][(/\ last'.op \in {"push_back", "push_back_self"}
        /\ vec["a"].size = vec["a"].cap
        /\ last'.out # "throw") =>
            /\ vec'["a"].cap = IF vec["a"].cap = 0 THEN 4
                               ELSE (vec["a"].cap * 3) \div 2
            /\ vec'["a"].cap > vec["a"].size]_vars

\* ---- C10 -------------------------------------------------------------------
\* what erase(begin() + i, begin() + j) on container w is to leave: the
\* elements before i followed by those from j on, that many live slots and no
\* more, the same capacity and buffer; and the position it returns is index i
ErasePost(w, i, j) ==
    /\ Contents(w)' = SubSeq(Contents(w), 1, i) \o
                         SubSeq(Contents(w), j + 1, vec[w].size)
    /\ vec'[w].size = vec[w].size - (j - i)
    /\ vec'[w].cap = vec[w].cap
    /\ vec'[w].data = vec[w].data
    /\ \A n \in 1..vec[w].cap : LiveSlot(w, n)' <=> n <= vec'[w].size
    /\ erase(Machine(1), vec[w], i, j).it = [p |-> vec'[w].data, i |-> i]
    /\ j = vec[w].size => i = vec'[w].size

MachineAfter(g) == [heap |-> heap', cd |-> countdown', inst |-> instances',
                    exc |-> FALSE, ub |-> FALSE, ovf |-> FALSE, copies |-> 0, g |-> g,
                    log |-> <<>>]

\* the elements of the vector v on the machine m, in order
ElemsOf(m, v) ==
    [i \in 1..v.size |->
        IF v.data # NullPtr /\ i <= Len(m.heap[v.data].slots)
        THEN m.heap[v.data].slots[i] ELSE Raw]

\* erase(it) called on w right after the step, no copy failing in it, gives
\* back the sequence and the size w had before the step
EraseRestores(w, it) ==
    /\ it.p = vec'[w].data
    /\ it.i < vec'[w].size
    /\ Only({ ~r.m.exc => (ElemsOf(r.m, r.v) = Contents(w) /\ r.v.size = vec[w].size)
            : r \in {erase(MachineAfter(1), vec'[w], it.i, it.i + 1)} })

\* C11: for every state and every k in 0..size, insert(begin() + k, v)
\* followed at once by erase at the position insert returned, no copy failing,
\* restores the sequence and the size, on the no-growth and the growth path.
C11_InsertEraseRoundTrip ==
    [][\A k \in 0..MaxCap, x \in Values :
          (last'.op = "insert" /\ last'.out # "throw" /\ Insert("a", k, x)) =>
              /\ last'.out = "ok"
              /\ \A g \in Garbage("a") :
                    EraseRestores("a", insert(Machine(g), vec["a"], k, ExtRef(x)).it)]_vars

\* ---- C12 -------------------------------------------------------------------
\* TEST(correctness, insert_begin): values are inserted at begin() of a
\* container that starts empty with capacity 0, then back() is read and
\* pop_back is called until the container is empty.  The record of the last
\* operation also carries the values inserted so far (vals), the number of
\* pop_back calls made (pops) and what the last back() returned (back).
Inserted == IF last.op \in {"insert_begin", "back_pop_back"} THEN last.vals ELSE <<>>
Popped == IF last.op = "back_pop_back" THEN last.pops ELSE 0

\* a.insert(a.begin(), x)
InsertBegin(x) ==
    /\ Usable("a")
    /\ last.op = "insert_begin" \/ (last.op = "ctor" /\ vec["a"] = EmptyVec)
    /\ Len(Inserted) < MaxN
    /\ LET r == insert(Machine(1), vec["a"], 0, ExtRef(x))
       IN  Commit("a", r.m, r.v,
                  Op("insert_begin", "a", r.m)
                      @@ [vals |-> Append(Inserted, x), pops |-> 0, back |-> 0])

\* a.back(); a.pop_back();
BackPopBack ==
    /\ Usable("a")
    /\ last.op \in {"insert_begin", "back_pop_back"}
    /\ vec["a"].size # 0
    /\ LET m0 == read_at(Machine(1), vec["a"].data, vec["a"].size - 1)
           r == pop_back(m0, vec["a"])
       IN  Commit("a", r.m, r.v,
                  Op("back_pop_back", "a", r.m)
                      @@ [vals |-> Inserted, pops |-> Popped + 1,
                          back |-> LoadVal(m0, vec["a"].data, vec["a"].size - 1)])

NextInsertBegin ==
    \/ \E x \in Values : InsertBegin(x)
    \/ BackPopBack

SpecInsertBegin == Init /\ [][NextInsertBegin]_vars

Reverse(s) == [i \in 1..Len(s) |-> s[Len(s) + 1 - i]]

\* C12: after v_0, ..., v_{N-1} were inserted at begin() of an initially empty
\* container it holds them in reverse order; the i-th of the following
\* pop_back calls finds back() == v_i, removes only the last element and
\* changes neither capacity nor data pointer; after N of them it is empty.
C12_InsertBeginReverses ==
    /\ [](/\ last.op = "insert_begin" =>
                /\ last.out = "ok"
                /\ status = "running"
                /\ Contents("a") = Reverse(last.vals)
          /\ last.op = "back_pop_back" =>
                /\ status = "running"
                /\ last.back = last.vals[last.pops]
                /\ vec["a"].size = Len(last.vals) - last.pops
                /\ Contents("a") = SubSeq(Reverse(last.vals), 1, vec["a"].size))
    /\ [][last'.op = "back_pop_back" =>
                /\ vec'["a"].cap = vec["a"].cap
                /\ vec'["a"].data = vec["a"].data
                /\ vec'["a"].size = vec["a"].size - 1
                /\ heap' = [heap EXCEPT ![vec["a"].data].slots[vec["a"].size] = Raw]
                /\ instances' = instances - 1]_vars

\* MaxN values, not all the same, were inserted, the buffer grew past its
\* first capacity, and the last of MaxN pop_back calls has emptied the container
C12_Witness ==
    /\ last.op = "back_pop_back"
    /\ Len(last.vals) = MaxN
    /\ last.pops = MaxN
    /\ last.vals[1] # last.vals[MaxN]
    /\ vec["a"].size = 0
    /\ vec["a"].cap > 4

\* ---- C13 -------------------------------------------------------------------
\* C13: after a shrink_to_fit in which no copy fails the capacity equals the
\* size and the container holds the sequence it held, in any state.
C13_ShrinkMakesTight ==
    [][(last'.op = "shrink_to_fit" /\ last'.out # "throw" /\ ShrinkToFit("a")) =>
          /\ last'.out = "ok"
          /\ vec'["a"].cap = vec'["a"].size
          /\ vec'["a"].size = vec["a"].size
          /\ Contents("a")' = Contents("a")
          /\ OwnsBuffer("a")'
          /\ \A n \in 1..vec'["a"].size : LiveSlot("a", n)']_vars

\* a shrink_to_fit on three elements, not all equal, in a buffer of four slots
\* has returned and left a capacity of three
C13_Witness ==
    /\ last.op = "shrink_to_fit"
    /\ last.out = "ok"
    /\ last.size0 = 3
    /\ last.cap0 = 4
    /\ vec["a"].cap = 3
    /\ Contents("a") = <<1, 2, 1>>

\* ---- C14 -------------------------------------------------------------------
\* C14: shrink_to_fit called with capacity == size (size 0 included, and the
\* call that follows a shrink_to_fit that returned) leaves the data pointer,
\* the size, the capacity and the elements as they were, allocates nothing
\* and copies no element.
C14_ShrinkTightNoOp ==
    [][(/\ last'.op = "shrink_to_fit"
        /\ ShrinkToFit("a")
        /\ vec["a"].cap = vec["a"].size
             \/ (last.op = "shrink_to_fit" /\ last.out = "ok")) =>
          /\ last'.out = "ok"
          /\ vec' = vec
          /\ heap' = heap
          /\ countdown' = countdown
          /\ instances' = instances
          /\ shrink_to_fit(Machine(1), vec["a"]).m.copies = 0]_vars

\* a shrink_to_fit was made on a full container of two elements or more while
\* the countdown was set to fail the very next copy, and it is still so set
C14_Witness ==
    /\ last.op = "shrink_to_fit"
    /\ last.out = "ok"
    /\ last.size0 = last.cap0
    /\ last.size0 >= 2
    /\ vec["a"].size = last.size0
    /\ countdown = 1

\* ---- C15 -------------------------------------------------------------------
\* the allocation that holds the elements of w is the same after the step
SameBuffer(w) == vec[w].data # NullPtr => heap'[vec[w].data] = heap[vec[w].data]

\* C15: w = o in which no copy fails leaves w holding the sequence and the
\* size of o, and o as it was (for w = w: the contents and the size of w as
\* they were); when a copy fails, w has the size, capacity, data pointer and
\* elements it had before the assignment.
C15_AssignCopies ==
    [][\A w \in Names, o \in Names :
          (last'.op = "assign" /\ last'.w = w /\ Assign(w, o)) =>
              IF last'.out = "ok"
              THEN /\ Contents(w)' = Contents(o)
                   /\ vec'[w].size = vec[o].size
                   /\ \A n \in 1..vec'[w].size : LiveSlot(w, n)'
                   /\ o # w => (vec'[o] = vec[o] /\ SameBuffer(o))
              ELSE /\ last'.out = "throw"
                   /\ vec' = vec
                   /\ Contents(w)' = Contents(w)
                   /\ SameBuffer(w)
                   /\ SameBuffer(o)]_vars

\* b = a has just failed at the copy of the second of a's elements; b still
\* has the one element it had, which differs from a's first
C15_Witness ==
    /\ last.op = "assign"
    /\ last.w = "b"
    /\ last.out = "throw"
    /\ alive["a"]
    /\ vec["a"].size >= 2
    /\ vec["b"].size = 1
    /\ Contents("b")[1] # Contents("a")[1]
    /\ countdown = 0

\* ---- C16 -------------------------------------------------------------------
\* the step is a call on w that may raise its capacity: reserve, or a
\* push_back or insert made with size == capacity
GrowthStep(w) ==
    /\ last'.w = w
    /\ \/ last'.op = "reserve"
       \/ /\ last'.op \in {"push_back", "push_back_self", "insert", "insert_self"}
          /\ vec[w].size = vec[w].cap

\* C16: the capacity of a container rises only in a step that is a reserve or
\* a growth and falls only in a step that is a shrink_to_fit; every other
\* operation, assignment and failed operations included, leaves it as it was.
C16_CapacityChangesOnlyByReserveGrowthShrink ==
    [][\A w \in Names :
          (alive[w] /\ alive'[w]) =>
              /\ vec'[w].cap > vec[w].cap => (GrowthStep(w) /\ last'.out = "ok")
              /\ vec'[w].cap < vec[w].cap =>
                     (last'.w = w /\ last'.op = "shrink_to_fit" /\ last'.out = "ok")]_vars

\* ---- C17 -------------------------------------------------------------------
\* C17: push_back(a[k]) in which no copy fails appends a copy of the value
\* a[k] had before the call and leaves the elements before it as they were,
\* whether or not the call reallocates; no slot is read after its element
\* was destroyed.
C17_PushBackFromSelf ==
    [][\A k \in 0..MaxCap :
          (last'.op = "push_back_self" /\ last'.out # "throw" /\ PushBackSelf("a", k)) =>
              /\ last'.out = "ok"
              /\ status' = "running"
              /\ Contents("a")' = Append(Contents("a"), Contents("a")[k + 1])
              /\ vec'["a"].size = vec["a"].size + 1]_vars

\* ---- C18 -------------------------------------------------------------------
\* copy_construct_all on its own, at the point where new_buffer calls it:
\* a (*this) holds n elements, b (tmp) owns a raw buffer of n slots, and the
\* countdown is anything from "never" to "the last copy fails"
InitCopy ==
    \E n \in 0..MaxCap : \E s \in [1..n -> Values] : \E c \in 0..MaxCap :
        /\ heap = [p \in BufIds |->
                      IF p = 1 THEN [used |-> TRUE, cap |-> n, slots |-> s]
                      ELSE IF p = 2 THEN [used |-> TRUE, cap |-> n,
                                          slots |-> [i \in 1..n |-> Raw]]
                      ELSE FreeBuf]
        /\ vec = [w \in Names |-> IF w = "a" THEN [data |-> 1, size |-> n, cap |-> n]
                                  ELSE [data |-> 2, size |-> 0, cap |-> n]]
        /\ alive = [w \in Names |-> TRUE]
        /\ countdown = c
        /\ instances = n
        /\ status = "running"
        /\ last = [op |-> "operator_new", w |-> "b", size0 |-> 0, cap0 |-> n, out |-> "ok"]

\* copy_construct_all(tmp.data_, data_, size_); the record of the call also
\* carries the log of the constructions and destructions it made
CopyConstructAll ==
    /\ status = "running"
    /\ last.op = "operator_new"
    /\ LET m == copy_construct_all(Machine(1), vec["b"].data, 0,
                                   vec["a"].data, 0, vec["a"].size)
       IN  /\ heap' = m.heap
           /\ countdown' = m.cd
           /\ instances' = m.inst
           /\ status' = StatusAfter(m)
           /\ last' = Op("copy_construct_all", "b", m) @@ [log |-> m.log]
           /\ UNCHANGED <<vec, alive>>

SpecCopy == InitCopy /\ [][CopyConstructAll]_vars

\* C18: copy_construct_all(dst, src, n) constructs dst[0], dst[1], ... in that
\* order; when the copy of element i fails it destroys dst[i-1], ..., dst[0]
\* in that order and then lets the failure out, so that no slot of dst holds
\* an element; src is as it was on both paths.
C18_CopyConstructAllUnwinds ==
    [][last'.op = "copy_construct_all" =>
          LET n == vec["a"].size
              src == vec["a"].data
              dst == vec["b"].data
              i == countdown - 1
          IN  /\ status' = "running"
              /\ heap'[src] = heap[src]
              /\ IF countdown = 0 \/ countdown > n
                 THEN /\ last'.out = "ok"
                      /\ last'.log = [j \in 1..n |-> Constructed(dst, j - 1)]
                      /\ heap'[dst].slots = heap[src].slots
                      /\ instances' = instances + n
                 ELSE /\ last'.out = "throw"
                      /\ last'.log = [j \in 1..(2 * i) |->
                                         IF j <= i THEN Constructed(dst, j - 1)
                                         ELSE Destroyed(dst, 2 * i - j)]
                      /\ \A j \in 1..n : heap'[dst].slots[j] = Raw
                      /\ instances' = instances]_vars

\* the copy of the fourth of four elements failed: three constructions and
\* three destructions were made
C18_Witness ==
    /\ last.op = "copy_construct_all"
    /\ last.out = "throw"
    /\ vec["a"].size = 4
    /\ Len(last.log) = 6
    /\ last.log[6] = Destroyed(vec["b"].data, 0)

\* ---- C19 -------------------------------------------------------------------
\* C19: no operation called within its preconditions reads, assigns or
\* destroys a slot that holds no element of its buffer, or constructs an
\* element in a slot outside its buffer.
C19_SlotAccessesInRange == status # "ub"

\* ---- C20 -------------------------------------------------------------------
\* C20: insert(begin() + k, a[e]) called with size < capacity, no copy
\* failing, puts the value a[e] had before the call in front of the element
\* of index k, for every element index e and every position k.
C20_InsertFromSelf ==
    [][\A k \in 0..MaxCap, e \in 0..MaxCap :
          (/\ last'.op = "insert_self"
           /\ last'.out # "throw"
           /\ vec["a"].size < vec["a"].cap
           /\ InsertSelf("a", k, e)) =>
              /\ last'.out = "ok"
              /\ Contents("a")' = InsertedAt(Contents("a"), k, Contents("a")[e + 1])
              /\ vec'["a"].size = vec["a"].size + 1]_vars

====
